---- MODULE Spec2Model ----
(***************************************************************************)
(* Lifecycle hooks of the Conda step decorators                            *)
(* (plugins/conda/conda_step_decorator.py).                                *)
(*                                                                         *)
(* Representation: a Python None is the empty tuple; an EnvID (a           *)
(* NamedTuple) is the 3-tuple <<req_id, full_id, arch>>; a filesystem path *)
(* is the sequence of its components; a PATH-like string is the sequence   *)
(* of its os.pathsep separated fields; a dict is a function whose DOMAIN   *)
(* is the set of keys present.                                             *)
(***************************************************************************)
EXTENDS Integers, Sequences, FiniteSets, TLC

\* ---------------------------------------------------------------- bounds
MaxCalls == 2
MaxCustomPaths == 2

\* ------------------------------------------------------- values and inputs
None == <<>>

UBF_CONTROL == "ubf_control"
UBF_TASK == "ubf_task"
UbfContexts == {"None", UBF_CONTROL, UBF_TASK}

CONDA_REMOTE_COMMANDS == {"batch", "kubernetes"}

EnvTypes == {"conda", "local"}
Steps == {"start", "train"}
EnabledStepSets == {{}, {"start"}}
FetchedEnvIDs == {None, <<"req2", "full2", "linux-64">>}
DecoratorSets == {{"conda_env_internal"}, {"conda_env_internal", "batch"}}
EnvIDs == {<<"req1", "full1", "linux-64">>, <<"req2", "full2", "linux-64">>}
NotEnvID == <<"_fake">>
EnvInfos == {<<"metaflow_req1", <<"envs", "e1">>>>}
ResolvedEnvs == {<<"resolved", "full1">>}
CreatedDirs == {<<"envs", "new">>}
Archs == {<<"linux", "64">>, <<"osx", "arm64">>}
InputPaths1 == << <<"r0", "start", "t0">> >>
InputPaths == {<<>>, InputPaths1}
Parameters == {"alpha", "my-param"}
RunIds == {"r1"}
PythonBinDir == <<"usr", "bin">>
EXT_PKG == "metaflow_extensions"
EMPTY == <<>>

CliInputs ==
  { [env |-> [k \in {} |-> None], entrypoint |-> << <<"usr", "bin", "python">>, <<"flow.py">> >>],
    [env |-> [k \in {"PYTHONPATH", "LD_LIBRARY_PATH"} |->
                 IF k = "PYTHONPATH" THEN << <<"old", "pp">> >> ELSE << <<"old", "ld">> >>],
     entrypoint |-> << <<"usr", "bin", "python">>, <<"flow.py">> >>] }

NoCli == [env |-> [k \in {} |-> None], entrypoint |-> <<>>]

PathValues == {None, << <<"bin">> >>}
LdValues == {None, <<EMPTY>>, << <<"opt", "lib">> >>}
CondaEnvValues == {None, <<"[", "req1", "full1", "linux-64", "]">>}

\* os.environ of the process at start: a key is present iff its value is not None
MakeEnviron(p, l, c) ==
  [k \in {x \in {"PATH", "LD_LIBRARY_PATH", "_METAFLOW_CONDA_ENV"} :
              \/ (x = "PATH" /\ p # None)
              \/ (x = "LD_LIBRARY_PATH" /\ l # None)
              \/ (x = "_METAFLOW_CONDA_ENV" /\ c # None)}
     |-> IF k = "PATH" THEN p ELSE IF k = "LD_LIBRARY_PATH" THEN l ELSE c]

InitialEnviron ==
  {MakeEnviron(p, l, c) : p \in PathValues, l \in LdValues, c \in CondaEnvValues}

TmpNames == <<"tmpA", "tmpB", "tmpC", "tmpD", "tmpE", "tmpF">>
TrampolineNames == <<"numpy.py", "torch.py">>
ExceptionArgs == {"None", "TaskFailed"}
InvalidEnvironmentException == "InvalidEnvironmentException"

\* ---------------------------------------------------------------- helpers
Put(d, k, v) == [x \in (DOMAIN d) \cup {k} |-> IF x = k THEN v ELSE d[x]]
Get(d, k) == IF k \in DOMAIN d THEN d[k] ELSE None

Join(dir, a, b) == dir \o <<a, b>>
Join1(dir, a) == dir \o <<a>>
Dirname(p) == IF Len(p) = 0 THEN p ELSE SubSeq(p, 1, Len(p) - 1)
IsPrefix(p, q) == Len(p) <= Len(q) /\ SubSeq(q, 1, Len(p)) = p

\* os.pathsep.join over a list of single-path strings
PathsepJoin(paths) == IF paths = <<>> THEN <<EMPTY>> ELSE paths

JsonDumps(e) == IF e = None THEN <<"null">> ELSE <<"[">> \o e \o <<"]">>

Truthy(s) == s # None /\ s # <<EMPTY>>

StartsWithLinux(a) == Len(a) > 0 /\ a[1] = "linux"

UpperUnderscore(var) == IF var = "alpha" THEN "ALPHA" ELSE "MY_PARAM"

VARIABLES phase, step_name, enabled_steps, env_id, is_remote, env_for_fetch,
          os_environ, arch, metaflow_home, addl_paths, fs, cli_in, cli_args,
          calls, metadata, raised, last_op, ncalls

vars == <<phase, step_name, enabled_steps, env_id, is_remote, env_for_fetch,
          os_environ, arch, metaflow_home, addl_paths, fs, cli_in, cli_args,
          calls, metadata, raised, last_op, ncalls>>

Op(name, ubf, arg) == [name |-> name, ubf |-> ubf, arg |-> arg]

enabled_for_step(s) == s \in enabled_steps

Mut_is_enabled(ubf_context) ==
  IF ubf_context = UBF_CONTROL THEN FALSE ELSE TRUE

_is_enabled(ubf_context) ==
  IF ubf_context = UBF_CONTROL THEN FALSE ELSE enabled_for_step(step_name)

Mut_is_fetch_at_exec(ubf_context) == ubf_context = UBF_TASK

_is_fetch_at_exec(ubf_context) == FALSE

Init ==
  /\ phase = "new"
  /\ step_name = ""
  /\ enabled_steps \in EnabledStepSets
  /\ env_id = None
  /\ is_remote = FALSE
  /\ env_for_fetch = [k \in {} |-> None]
  /\ os_environ \in InitialEnviron
  /\ arch \in Archs
  /\ metaflow_home = None
  /\ addl_paths = None
  /\ fs = {}
  /\ cli_in = NoCli
  /\ cli_args = NoCli
  /\ calls = <<>>
  /\ metadata = {}
  /\ raised = None
  /\ last_op = Op("construct", "None", "")
  /\ ncalls = 0

\* ------------------------------------- PackageRequirementStepDecorator
\* the condition under which step_init raises
Mut_PackageStepInitRaises(environment_type) == FALSE

PackageStepInitRaises(environment_type) == environment_type # "conda"

PackageStepInit(environment_type) ==
  /\ ncalls < MaxCalls
  /\ ncalls' = ncalls + 1
  /\ last_op' = Op("package_step_init", "None", environment_type)
  /\ raised' = IF PackageStepInitRaises(environment_type)
                 THEN <<InvalidEnvironmentException, "requires --environment=conda">>
                 ELSE None
  /\ calls' = <<>>
  /\ UNCHANGED <<phase, step_name, enabled_steps, env_id, is_remote, env_for_fetch,
                 os_environ, arch, metaflow_home, addl_paths, fs, cli_in, cli_args,
                 metadata>>

\* ------------------------------------------- CondaEnvInternalDecorator
StepInit(sn, decorators) ==
  /\ phase = "new"
  /\ phase' = "init"
  /\ step_name' = sn
  /\ env_for_fetch' = [k \in {} |-> None]
  /\ env_id' = None
  /\ is_remote' = (\E d \in decorators : d \in CONDA_REMOTE_COMMANDS)
  /\ os_environ' = Put(os_environ, "PYTHONNOUSERSITE", <<"1">>)
  /\ last_op' = Op("step_init", "None", "")
  /\ raised' = None
  /\ calls' = <<>>
  /\ UNCHANGED <<enabled_steps, arch, metaflow_home, addl_paths, fs, cli_in,
                 cli_args, metadata, ncalls>>

Entry(path, kind) == [path |-> path, kind |-> kind]

\* tempfile.mkdtemp(dir=...): the i-th fresh directory name under dir
Mkdtemp(dir, i) == Join1(dir, TmpNames[i])

\* generate_trampolines(out_dir): the files it writes, all under out_dir
generate_trampolines(out_dir, n) ==
  {Entry(Join1(out_dir, TrampolineNames[i]), "file") : i \in 1..n}

\* the directory in which the per-path directories of a namespace package are made
Mut_NamespaceTempParent(home) == <<"tmp">>

NamespaceTempParent(home) == home

RuntimeInit(has_info, import_ok, ncustom, ntramp, run_id) ==
  /\ phase = "init"
  /\ phase' = "running"
  /\ LET home == Mkdtemp(<<"tmp">>, 1)
         base == {Entry(home, "dir"), Entry(Join1(home, "metaflow"), "symlink"),
                  Entry(Join1(home, "INFO"), IF has_info THEN "symlink" ELSE "file")}
         temp_dir(i) == Mkdtemp(NamespaceTempParent(home), i + 1)
         ext == IF ~import_ok THEN {}
                ELSE IF ncustom = 1 THEN {Entry(Join1(home, EXT_PKG), "symlink")}
                ELSE UNION {{Entry(temp_dir(i), "dir"),
                             Entry(Join1(temp_dir(i), EXT_PKG), "symlink")} : i \in 1..ncustom}
     IN /\ metaflow_home' = home
        /\ addl_paths' = IF import_ok /\ ncustom # 1
                           THEN << [i \in 1..ncustom |-> temp_dir(i)] >>
                           ELSE None
        /\ fs' = fs \cup base \cup ext \cup generate_trampolines(home, ntramp)
  /\ env_for_fetch' =
       IF _is_enabled("None") /\ _is_fetch_at_exec("None")
         THEN Put(Put(Put(env_for_fetch, "METAFLOW_RUN_ID", <<"str", run_id>>),
                      "METAFLOW_RUN_ID_BASE", <<"str", run_id>>),
                  "METAFLOW_STEP_NAME", <<"str", step_name>>)
         ELSE env_for_fetch
  /\ last_op' = Op("runtime_init", "None", "")
  /\ raised' = None
  /\ calls' = <<>>
  /\ UNCHANGED <<step_name, enabled_steps, env_id, is_remote, os_environ, arch,
                 cli_in, cli_args, metadata, ncalls>>

\* shutil.rmtree(root): what is left of the tree
Rmtree(files, root) == {e \in files : ~IsPrefix(root, e.path)}

RuntimeFinished(exception) ==
  /\ phase = "running"
  /\ phase' = "finished"
  /\ fs' = Rmtree(fs, metaflow_home)
  /\ last_op' = Op("runtime_finished", "None", exception)
  /\ raised' = None
  /\ calls' = <<>>
  /\ UNCHANGED <<step_name, enabled_steps, env_id, is_remote, env_for_fetch,
                 os_environ, arch, metaflow_home, addl_paths, cli_in, cli_args,
                 metadata, ncalls>>

IsEnvID(t) == Len(t) = 3

\* the fetch-at-exec block of runtime_task_created
FetchAtExecCreated(input_paths, fetched) ==
  IF input_paths = <<>>
    THEN /\ raised' = <<"IndexError", "list index out of range">>
         /\ calls' = <<>>
         /\ UNCHANGED <<env_for_fetch, env_id>>
    ELSE LET pathspec == input_paths[1]
             run_id == pathspec[1]
             sn == pathspec[2]
             task_id == pathspec[3]
             withParams == [k \in (DOMAIN env_for_fetch)
                                   \cup {"METAFLOW_INIT_" \o UpperUnderscore(v) : v \in Parameters}
                              |-> IF \E v \in Parameters : k = "METAFLOW_INIT_" \o UpperUnderscore(v)
                                    THEN <<"lambda",
                                           CHOOSE v \in Parameters :
                                              k = "METAFLOW_INIT_" \o UpperUnderscore(v),
                                           run_id, sn, task_id>>
                                    ELSE env_for_fetch[k]]
             fetchEnv == Put(withParams, "METAFLOW_TASK_ID", <<"str", task_id>>)
         IN /\ env_for_fetch' = fetchEnv
            /\ env_id' = fetched
            /\ calls' = << <<"get_task_datastore", pathspec, None>>,
                           <<"resolve_fetch_at_exec_env", step_name, fetched>> >>
            /\ raised' = IF fetched = None
                           THEN <<InvalidEnvironmentException,
                                  "Cannot find the environment ID for a fetch-at-exec step">>
                           ELSE None

RuntimeTaskCreated(ubf_context, input_paths, t, fetched) ==
  /\ phase \in {"init", "running"}
  /\ ncalls < MaxCalls
  /\ ncalls' = ncalls + 1
  /\ last_op' = Op("runtime_task_created", ubf_context, "")
  /\ IF _is_enabled(ubf_context)
       THEN IF _is_fetch_at_exec(ubf_context)
              THEN FetchAtExecCreated(input_paths, fetched)
              ELSE /\ calls' = << <<"get_env_id_noconda", step_name, t>> >>
                   /\ IF IsEnvID(t)
                        THEN /\ env_id' = t
                             /\ raised' = None
                        ELSE /\ env_id' = env_id
                             /\ raised' = <<InvalidEnvironmentException,
                                            "Unexpected ID for the Conda environment">>
                   /\ UNCHANGED env_for_fetch
       ELSE /\ calls' = <<>>
            /\ raised' = None
            /\ UNCHANGED <<env_for_fetch, env_id>>
  /\ UNCHANGED <<phase, step_name, enabled_steps, is_remote, os_environ, arch,
                 metaflow_home, addl_paths, fs, cli_in, cli_args, metadata>>

TaskPreStep(ubf_context, run_id, task_id, retry_count) ==
  /\ phase \in {"init", "running"}
  /\ ncalls < MaxCalls
  /\ ncalls' = ncalls + 1
  /\ last_op' = Op("task_pre_step", ubf_context, "")
  /\ calls' = <<>>
  /\ IF _is_enabled(ubf_context)
       THEN LET env_path == IF "PATH" \in DOMAIN os_environ
                              THEN <<PythonBinDir>> \o os_environ["PATH"]
                              ELSE <<PythonBinDir>>
            IN /\ os_environ' = Put(os_environ, "PATH", env_path)
               /\ IF "_METAFLOW_CONDA_ENV" \in DOMAIN os_environ
                    THEN /\ metadata' = metadata \cup
                                {[run_id |-> run_id, step_name |-> step_name,
                                  task_id |-> task_id, field |-> "conda_env_id",
                                  value |-> os_environ["_METAFLOW_CONDA_ENV"],
                                  type |-> "conda_env_id",
                                  tags |-> <<"attempt_id", retry_count>>]}
                         /\ raised' = None
                    ELSE /\ metadata' = metadata
                         /\ raised' = <<"KeyError", "_METAFLOW_CONDA_ENV">>
       ELSE /\ raised' = None
            /\ UNCHANGED <<os_environ, metadata>>
  /\ UNCHANGED <<phase, step_name, enabled_steps, env_id, is_remote, env_for_fetch,
                 arch, metaflow_home, addl_paths, fs, cli_in, cli_args>>

\* line 313: the cases in which runtime_step_cli stops after the export
Mut_SkipsEnvironment(ubf_context) == is_remote

SkipsEnvironment(ubf_context) == is_remote \/ ~_is_enabled(ubf_context)

\* lines 322-343: find or create the environment; the interpreter to run,
\* the collaborator calls made and the exception raised (None if none)
Mut_ProvideEnvironment(existing_env_info, resolved_env, created_dir) ==
  IF resolved_env # None
    THEN [entrypoint |-> Join(created_dir, "bin", "python"),
          calls |-> << <<"created_environment", env_id, existing_env_info>>,
                       <<"environment", env_id, resolved_env>>,
                       <<"create_for_step", <<step_name, resolved_env>>, created_dir>> >>,
          raised |-> None]
    ELSE [entrypoint |-> None,
          calls |-> << <<"created_environment", env_id, existing_env_info>>,
                       <<"environment", env_id, resolved_env>> >>,
          raised |-> <<InvalidEnvironmentException, "Cannot create environment">>]

ProvideEnvironment(existing_env_info, resolved_env, created_dir) ==
  IF existing_env_info # None
    THEN [entrypoint |-> Join(existing_env_info[2], "bin", "python"),
          calls |-> << <<"created_environment", env_id, existing_env_info>> >>,
          raised |-> None]
    ELSE IF resolved_env # None
      THEN [entrypoint |-> Join(created_dir, "bin", "python"),
            calls |-> << <<"created_environment", env_id, existing_env_info>>,
                         <<"environment", env_id, resolved_env>>,
                         <<"create_for_step", <<step_name, resolved_env>>, created_dir>> >>,
            raised |-> None]
      ELSE [entrypoint |-> None,
            calls |-> << <<"created_environment", env_id, existing_env_info>>,
                         <<"environment", env_id, resolved_env>> >>,
            raised |-> <<InvalidEnvironmentException, "Cannot create environment">>]

\* lines 346-349
PythonPath ==
  IF addl_paths # None
    THEN PathsepJoin(addl_paths[1]) \o <<metaflow_home>>
    ELSE <<metaflow_home>>

\* lines 358-369
WithLdLibraryPath(env, entrypoint) ==
  IF StartsWithLinux(arch) /\ Truthy(Get(os_environ, "LD_LIBRARY_PATH"))
    THEN Put(env, "LD_LIBRARY_PATH",
             <<Join1(Dirname(Dirname(entrypoint)), "lib")>> \o os_environ["LD_LIBRARY_PATH"])
    ELSE env

RuntimeStepCli(cli, ubf_context, existing_env_info, resolved_env, created_dir) ==
  /\ phase \in {"init", "running"}
  /\ ncalls < MaxCalls
  /\ ncalls' = ncalls + 1
  /\ last_op' = Op("runtime_step_cli", ubf_context, "")
  /\ cli_in' = cli
  /\ IF ~(_is_enabled(UBF_TASK) \/ _is_fetch_at_exec(ubf_context))
       THEN /\ cli_args' = cli
            /\ calls' = <<>>
            /\ raised' = None
       ELSE LET exported == Put(cli.env, "_METAFLOW_CONDA_ENV", JsonDumps(env_id))
                r == ProvideEnvironment(existing_env_info, resolved_env, created_dir)
            IN IF SkipsEnvironment(ubf_context)
                 THEN /\ cli_args' = [cli EXCEPT !.env = exported]
                      /\ calls' = <<>>
                      /\ raised' = None
                 ELSE IF env_id = None
                   THEN /\ cli_args' = [cli EXCEPT !.env = exported]
                        /\ calls' = <<>>
                        /\ raised' = <<"AssertionError", "">>
                   ELSE IF r.raised # None
                     THEN /\ cli_args' = [cli EXCEPT !.env = exported]
                          /\ calls' = r.calls
                          /\ raised' = r.raised
                     ELSE IF metaflow_home = None
                       THEN /\ cli_args' = [cli EXCEPT !.env = exported]
                            /\ calls' = r.calls
                            /\ raised' = <<"AttributeError", "_metaflow_home">>
                       ELSE /\ cli_args' =
                                 [env |-> WithLdLibraryPath(
                                             Put(exported, "PYTHONPATH", PythonPath),
                                             r.entrypoint),
                                  entrypoint |-> [cli.entrypoint EXCEPT ![1] = r.entrypoint]]
                            /\ calls' = r.calls
                            /\ raised' = None
  /\ UNCHANGED <<phase, step_name, enabled_steps, env_id, is_remote, env_for_fetch,
                 os_environ, arch, metaflow_home, addl_paths, fs, metadata>>

\* input_paths and the result of resolve_fetch_at_exec_env are read on the
\* fetch-at-exec path only
FetchInputs(ubf_context) ==
  IF _is_enabled(ubf_context) /\ _is_fetch_at_exec(ubf_context)
    THEN InputPaths \X FetchedEnvIDs
    ELSE {<<InputPaths1, None>>}

Next ==
  \/ \E ty \in EnvTypes : PackageStepInit(ty)
  \/ \E sn \in Steps, ds \in DecoratorSets : StepInit(sn, ds)
  \/ \E has_info \in BOOLEAN, import_ok \in BOOLEAN, n \in 0..MaxCustomPaths,
        nt \in {1}, run_id \in RunIds :
        RuntimeInit(has_info, import_ok, n, nt, run_id)
  \/ \E ubf \in UbfContexts, t \in EnvIDs \cup {NotEnvID} :
        \E fi \in FetchInputs(ubf) : RuntimeTaskCreated(ubf, fi[1], t, fi[2])
  \/ \E cli \in CliInputs, ubf \in UbfContexts, ex \in EnvInfos \cup {None},
        re \in ResolvedEnvs \cup {None}, cd \in CreatedDirs :
        RuntimeStepCli(cli, ubf, ex, re, cd)
  \/ \E ubf \in UbfContexts, run_id \in RunIds, task_id \in {"t1"}, rc \in 0..1 :
        TaskPreStep(ubf, run_id, task_id, rc)
  \/ \E e \in ExceptionArgs : RuntimeFinished(e)

Spec == Init /\ [][Next]_vars

\* ------------------------------------------------------------ properties
CondaCallNames == {"created_environment", "environment", "create_for_step"}
CallsNamed(names) == {i \in DOMAIN calls : calls[i][1] \in names}
InternalState == <<phase, step_name, enabled_steps, env_id, is_remote, env_for_fetch,
                   os_environ, arch, metaflow_home, addl_paths, fs, cli_in, cli_args,
                   metadata>>

\* C1: PackageRequirementStepDecorator.step_init raises
\* InvalidEnvironmentException exactly when the environment's TYPE is not
\* "conda"; with TYPE "conda" it returns normally and changes no state.
C1_StepInitRaisesIffNotConda ==
  [][last_op'.name = "package_step_init" =>
       /\ (raised' # None) <=> (last_op'.arg # "conda")
       /\ raised' # None => raised'[1] = InvalidEnvironmentException
       /\ last_op'.arg = "conda" => UNCHANGED InternalState]_vars

C1_Witness ==
  /\ last_op.name = "package_step_init"
  /\ last_op.arg = "local"
  /\ raised # None
  /\ raised[1] = InvalidEnvironmentException

\* C2: on a step for which enabled_for_step is false, runtime_task_created,
\* runtime_step_cli and task_pre_step (any ubf_context, retry count, remote or
\* local) never set _env_id, leave cli_args.env and cli_args.entrypoint as
\* passed in, make no Conda call, leave PATH alone and register no metadata.
C2_DisabledStepUntouched ==
  [][(/\ ~enabled_for_step(step_name)
      /\ last_op'.name \in {"runtime_task_created", "runtime_step_cli", "task_pre_step"})
       => /\ env_id' = None
          /\ last_op'.name = "runtime_step_cli" => cli_args' = cli_in'
          /\ last_op'.name # "runtime_step_cli" => UNCHANGED cli_args
          /\ calls' = <<>>
          /\ UNCHANGED os_environ
          /\ metadata' = {}
          /\ raised' = None]_vars

C2_Witness ==
  /\ ~enabled_for_step(step_name)
  /\ phase = "running"
  /\ ~is_remote
  /\ last_op.name = "runtime_step_cli"
  /\ last_op.ubf = UBF_TASK
  /\ ncalls = 2
  /\ "PYTHONPATH" \in DOMAIN cli_in.env

\* C3: for a local, enabled, non-control task, a runtime_step_cli that returns
\* normally has put <environment directory>/bin/python in cli_args.entrypoint[0]
\* for the environment of _env_id: an existing environment reported by
\* created_environment(_env_id) is reused without create_for_step; otherwise
\* create_for_step is called exactly once, with the resolved environment; when
\* there is neither, InvalidEnvironmentException is raised and
\* cli_args.entrypoint is as passed in.
C3_LocalTaskCase ==
  /\ last_op.name = "runtime_step_cli"
  /\ enabled_for_step(step_name)
  /\ ~is_remote
  /\ last_op.ubf # UBF_CONTROL

C3_LocalEntrypoint ==
  C3_LocalTaskCase =>
    /\ raised = None =>
         /\ Len(calls) >= 1
         /\ calls[1][1] = "created_environment"
         /\ calls[1][2] = env_id
         /\ env_id # None
         /\ IF calls[1][3] # None
              THEN /\ cli_args.entrypoint[1] = calls[1][3][2] \o <<"bin", "python">>
                   /\ CallsNamed({"create_for_step"}) = {}
              ELSE /\ Len(calls) = 3
                   /\ calls[2][1] = "environment"
                   /\ calls[2][2] = env_id
                   /\ calls[2][3] # None
                   /\ CallsNamed({"create_for_step"}) = {3}
                   /\ calls[3][2] = <<step_name, calls[2][3]>>
                   /\ cli_args.entrypoint[1] = calls[3][3] \o <<"bin", "python">>
         /\ Tail(cli_args.entrypoint) = Tail(cli_in.entrypoint)
    /\ (/\ Len(calls) >= 2
        /\ calls[1][1] = "created_environment" /\ calls[1][3] = None
        /\ calls[2][1] = "environment" /\ calls[2][3] = None)
         => /\ raised = <<InvalidEnvironmentException, "Cannot create environment">>
            /\ cli_args.entrypoint = cli_in.entrypoint
            /\ CallsNamed({"create_for_step"}) = {}

C3_Witness ==
  /\ C3_LocalTaskCase
  /\ raised = None
  /\ Len(calls) = 1
  /\ calls[1][3] # None
  /\ cli_args.entrypoint[1] = <<"envs", "e1", "bin", "python">>

\* C4: on an enabled step, a runtime_step_cli for a remote step or for a UBF
\* control task only sets cli_args.env["_METAFLOW_CONDA_ENV"]: no Conda lookup
\* or creation, and cli_args.entrypoint and every other key of cli_args.env
\* (PYTHONPATH, LD_LIBRARY_PATH) are as passed in.
C4_RemoteOrControlCase ==
  /\ last_op.name = "runtime_step_cli"
  /\ enabled_for_step(step_name)
  /\ (is_remote \/ last_op.ubf = UBF_CONTROL)

C4_RemoteOrControlOnlyExports ==
  C4_RemoteOrControlCase =>
    /\ raised = None
    /\ calls = <<>>
    /\ cli_args.entrypoint = cli_in.entrypoint
    /\ DOMAIN cli_args.env = (DOMAIN cli_in.env) \cup {"_METAFLOW_CONDA_ENV"}
    /\ cli_args.env["_METAFLOW_CONDA_ENV"] = JsonDumps(env_id)
    /\ \A k \in (DOMAIN cli_in.env) \ {"_METAFLOW_CONDA_ENV"} :
          cli_args.env[k] = cli_in.env[k]

C4_Witness ==
  /\ C4_RemoteOrControlCase
  /\ ~is_remote
  /\ last_op.ubf = UBF_CONTROL
  /\ phase = "running"
  /\ StartsWithLinux(arch)
  /\ Truthy(Get(os_environ, "LD_LIBRARY_PATH"))
  /\ "_METAFLOW_CONDA_ENV" \in DOMAIN cli_args.env

\* C5: runtime_init creates exactly one directory directly under /tmp (the
\* metaflow home) and everything else it creates lies inside it; after
\* runtime_finished, with or without an exception, nothing it created remains.
TopLevel(files) == {e \in files : Len(e.path) = 2 /\ e.path[1] = "tmp"}

C5_TempDirLeakFree ==
  /\ phase = "running" =>
       /\ TopLevel(fs) = {Entry(metaflow_home, "dir")}
       /\ \A e \in fs : IsPrefix(metaflow_home, e.path)
  /\ phase = "finished" => fs = {}

C5_Witness ==
  /\ phase = "finished"
  /\ last_op.arg = "TaskFailed"
  /\ addl_paths # None
  /\ Len(addl_paths[1]) = 2
  /\ ncalls = 2
  /\ fs = {}

\* C6: the fetch-at-exec path is never taken: _env_for_fetch stays empty,
\* resolve_fetch_at_exec_env is never called, the "Cannot find the environment
\* ID for a fetch-at-exec step" error is never raised, and _env_id only ever
\* receives the value returned by get_env_id_noconda(step_name).
C6_NoFetchState ==
  /\ DOMAIN env_for_fetch = {}
  /\ CallsNamed({"resolve_fetch_at_exec_env", "get_task_datastore"}) = {}
  /\ raised # <<InvalidEnvironmentException,
                "Cannot find the environment ID for a fetch-at-exec step">>

C6_FetchAtExecUnreachable ==
  /\ []C6_NoFetchState
  /\ [][env_id' # env_id =>
          calls' = << <<"get_env_id_noconda", step_name, env_id'>> >>]_vars

C6_Witness ==
  /\ last_op.name = "runtime_task_created"
  /\ last_op.ubf = UBF_TASK
  /\ enabled_for_step(step_name)
  /\ phase = "running"
  /\ env_id = <<"req2", "full2", "linux-64">>
  /\ ncalls = 2

====
